---- MODULE Spec2Model ----
(***************************************************************************)
(* Model of the firecracker hypervisor driver, virtcontainers/fc.go:       *)
(* the readiness state (firecrackerState), the pending device queue, the   *)
(* boot sequence of startSandbox, the disk pool, the device dispatch of    *)
(* addDevice / hotplugAddDevice and the process teardown of fcEnd.         *)
(*                                                                         *)
(* One coordinating caller drives the instance (createSandbox,            *)
(* startSandbox, stopSandbox, disconnect, hotplugAddDevice,                *)
(* hotplugRemoveDevice), one call at a time; startSandbox is a sequence of *)
(* steps, one per call it makes, and pc is its position.  addDevice is     *)
(* called from other threads too and may run between any two steps of      *)
(* startSandbox.  addDevice holds the read lock of firecrackerState from   *)
(* its first to its last statement, so no set() runs inside it: it is one  *)
(* action.  Spec is this system; SpecRace adds a disconnect that another   *)
(* thread calls while startSandbox is running.                             *)
(*                                                                         *)
(* Three more specifications follow one function at a finer grain:         *)
(* SpecWait the polls of waitVMM against the elapsed time, SpecEnd the     *)
(* kill(2) calls of fcEnd against the process table, SpecAppend the        *)
(* statements of addDevice in device threads that run it together.  Their  *)
(* variables (wait, end, proc, thr) keep their initial values in Spec.     *)
(* SpecAfter is Spec with device threads that call addDevice right after  *)
(* startSandbox has returned an error.                                     *)
(*                                                                         *)
(* calls, ret, failedStep, cleanups and signals record what the call in    *)
(* progress has done; they are what its caller observes when it returns    *)
(* (pc = "return"), and the return clears them.  devOp and devCalls do the *)
(* same for a call of addDevice or of a hotplug function.                  *)
(*                                                                         *)
(* The Control Channel (the firecracker REST API), the process table, the  *)
(* store and the asset resolver are the environment: each of their answers *)
(* is a nondeterministic choice.                                           *)
(***************************************************************************)
EXTENDS Integers, Sequences, FiniteSets, TLC

(* vmmState, fc.go:39-43 *)
notReady == 0
apiReady == 1
vmReady == 2

(* fc.go:47, fc.go:49, fc.go:54 *)
fcTimeout == 10
fcStopSandboxTimeout == 15
fcDiskPoolSize == 8

(* The sleeps of the loops of waitVMM and fcEnd, in milliseconds. *)
waitVMMSleep == 10
fcEndSleep == 50

(* Bounds of the model. *)
MaxQueue == 2      \* addDevice calls that queue, from other threads
MaxStarts == 2     \* invocations of startSandbox
MaxFaults == 1     \* failures injected by the environment in one behaviour
MaxEnds == 2       \* fcEnd calls followed step by step

(* The PID the store may hold from an earlier runtime process (0: none),  *)
(* and the PID the k-th spawned manager process gets.                     *)
StoredPIDs == {0, 40}
SpawnedPID(k) == 100 + k

(* Instance states of the Control API, models.InstanceInfoState... *)
InstanceStates == {"Uninitialized", "Starting", "Running", "Halting", "Halted"}

(* The timeouts a caller may pass to startSandbox. *)
Timeouts == {-1, 5}

(* The timeouts of the waitVMM calls followed poll by poll. *)
PollTimeouts == {-1, 0, 2, 5}

(* The iterations of createDiskPool at which the environment may fail. *)
PoolFailures == {5}

(* Pool indexes of the block drives handed to hotplugAddDevice. *)
HotplugIndexes == {-1, 3, 8}

(***************************************************************************)
(* Device descriptors.  kind is the Go dynamic type of devInfo, on which   *)
(* addDevice switches; the fields are those the driver reads:              *)
(*   Endpoint:   ID = Name(), File = the tap interface name               *)
(*   BlockDrive: ID, File, Index                                           *)
(*   kataVSOCK:  Index = contextID                                         *)
(***************************************************************************)
Endpoint(name, tap) == [kind |-> "Endpoint", ID |-> name, File |-> tap, Index |-> 0]
BlockDrive(id, file, index) == [kind |-> "BlockDrive", ID |-> id, File |-> file, Index |-> index]
kataVSOCK(cid) == [kind |-> "kataVSOCK", ID |-> "", File |-> "", Index |-> cid]
OtherDevice == [kind |-> "other", ID |-> "", File |-> "", Index |-> 0]

firecrackerDevice(devInfo, devType) == [dev |-> devInfo, devType |-> devType]

(* The (devInfo, devType) pairs passed to addDevice. *)
AddInputs ==
    { firecrackerDevice(Endpoint("eth0", "tap0"), "netDev"),
      firecrackerDevice(BlockDrive("blk0", "/dev/loop0", 0), "blockDev"),
      firecrackerDevice(kataVSOCK(3), "vSockPCIDev"),
      firecrackerDevice(OtherDevice, "serialPortDev") }

(* The (devInfo, devType) pairs passed to hotplugAddDevice. *)
HotplugInputs ==
    { firecrackerDevice(BlockDrive("blk1", "/dev/loop1", i), "blockDev") : i \in HotplugIndexes }
    \cup { firecrackerDevice(Endpoint("eth1", "tap1"), "netDev"),
           firecrackerDevice(kataVSOCK(3), "vSockPCIDev") }

VARIABLES
    created,         \* createSandbox has run on the instance
    state,           \* fc.state.state
    info,            \* fc.info.PID
    store,           \* the PID held by the store under store.Hypervisor (0: none)
    pendingDevices,  \* fc.pendingDevices
    running,         \* the lifecycle call in progress ("none": none)
    pc,              \* its position
    err,             \* startSandbox's variable err, which its deferred function reads
    rangeDevs,       \* the slice the range loop of startSandbox iterates over
    ri,              \* index of the next element of the range loop
    calls,           \* Control Channel calls of the startSandbox in progress
    failedStep,      \* first step of the boot sequence that failed (0: none)
    cleanups,        \* fcEnd invocations by the deferred function of this startSandbox
    ret,             \* result of the call in progress ("none": not yet returning)
    signals,         \* kill(2) calls of fcEnd in the call in progress
    starts,          \* startSandbox invocations so far
    faults,          \* failures injected so far
    dispatched,      \* per index of pendingDevices: Control Channel calls made for it
    devOp,           \* the call a device thread is returning from: name, input, result
    devCalls,        \* Control Channel calls of that call
    closes,          \* vhostFd.Close() calls of the startSandbox in progress
    wait,            \* the waitVMM call whose polls are followed one by one
    end,             \* the fcEnd call whose kill(2) calls are followed one by one
    proc,            \* the process table: is the process fc.info.PID there
    thr              \* per device thread: its position inside addDevice

vars == <<created, state, info, store, pendingDevices, running, pc, err, rangeDevs, ri, calls,
          failedStep, cleanups, ret, signals, starts, faults, dispatched, devOp, devCalls,
          closes, wait, end, proc, thr>>

seqVars == <<running, pc, err, rangeDevs, ri, calls, failedStep, cleanups, ret, signals, starts,
             closes>>

(* The variables of the step-by-step views of waitVMM, fcEnd and addDevice. *)
stepVars == <<wait, end, proc, thr>>

(***************************************************************************)
(* Control Channel calls.  step is the step of the boot sequence that      *)
(* issued the call (0: none) and qi the index in pendingDevices of the     *)
(* entry it dispatches (0: none).  st is the readiness at the moment of a  *)
(* call that carries a device; the sequencer's own calls read no readiness *)
(* and carry NoState.                                                      *)
(***************************************************************************)
Call(op, id, path, ro, root, ok, by) ==
    [op |-> op, id |-> id, path |-> path, ro |-> ro, root |-> root, ok |-> ok, resp |-> "",
     st |-> by.st, step |-> by.step, qi |-> by.qi]

(* DescribeInstance and its answer: an instance state, or "error". *)
DescribeInstance(resp, by) ==
    [Call("describeInstance", "", "", FALSE, FALSE, resp # "error", by) EXCEPT !.resp = resp]

By(st, step, qi) == [st |-> st, step |-> step, qi |-> qi]
NoState == notReady - 1

(* An environment answer: a failure is drawn only within the fault budget. *)
Answers == IF faults < MaxFaults THEN {TRUE, FALSE} ELSE {TRUE}
Fault(ok) == IF ok THEN faults ELSE faults + 1

(* strconv.Itoa *)
Digit(d) == <<"0", "1", "2", "3", "4", "5", "6", "7", "8", "9">>[d + 1]

RECURSIVE Itoa(_)
Itoa(i) ==
    IF i < 0 THEN "-" \o Itoa(-i)
    ELSE IF i < 10 THEN Digit(i)
    ELSE Itoa(i \div 10) \o Digit(i % 10)

fcDriveIndexToID(i) == "drive_" \o Itoa(i)

(* The device threads whose addDevice calls are followed step by step. *)
Threads == {1, 2}

(* No waitVMM, no fcEnd is followed; thread t is outside addDevice. *)
NoWait == [pc |-> "idle", timeout |-> 0, elapsed |-> 0, ret |-> "none"]
NoEnd == [pc |-> "idle", pid |-> 0, elapsed |-> 0, signals |-> <<>>, ret |-> "none", n |-> 0,
          sawDead |-> FALSE]
NoThread == [pc |-> "idle", arg |-> firecrackerDevice(OtherDevice, ""), slice |-> <<>>,
             done |-> <<>>]

(* No device thread is inside a call. *)
NoDevOp ==
    [op |-> "none", arg |-> firecrackerDevice(OtherDevice, ""), st |-> notReady, err |-> FALSE,
     closed |-> 0]

Init ==
    /\ created = FALSE
    /\ state = notReady
    /\ info = 0
    /\ store \in StoredPIDs
    /\ pendingDevices = <<>>
    /\ running = "none"
    /\ pc = "idle"
    /\ err = FALSE
    /\ rangeDevs = <<>>
    /\ ri = 1
    /\ calls = <<>>
    /\ failedStep = 0
    /\ cleanups = 0
    /\ ret = "none"
    /\ signals = <<>>
    /\ starts = 0
    /\ faults = 0
    /\ dispatched = <<>>
    /\ devOp = NoDevOp
    /\ devCalls = <<>>
    /\ closes = 0
    /\ wait = NoWait
    /\ end = NoEnd
    /\ proc = "alive"
    /\ thr = [t \in Threads |-> NoThread]

(***************************************************************************)
(* The device calls of the Control Channel: each operator is the sequence  *)
(* of calls the function issues, given the channel's answer ok.            *)
(***************************************************************************)
fcAddNetDevice(endpoint, ok, by) ==
    <<Call("putNetworkInterface", endpoint.ID, endpoint.File, FALSE, FALSE, ok, by)>>

fcAddBlockDrive(drive, ok, by) ==
    <<Call("putDrive", drive.ID, drive.File, FALSE, FALSE, ok, by)>>

fcAddVsock(vs, ok, by) ==
    <<Call("putVsock", "root", "", FALSE, FALSE, ok, by)>>

(* vs.vhostFd.Close() in fcAddVsock: the number of times the dispatch of   *)
(* devInfo closes the host descriptor of the vsock, given the answer ok.   *)
vhostFdClose(devInfo, ok) == IF devInfo.kind = "kataVSOCK" /\ ok THEN 1 ELSE 0

(* The type switch of addDevice, fc.go:653-667. *)
dispatch(devInfo, ok, by) ==
    CASE devInfo.kind = "Endpoint" -> fcAddNetDevice(devInfo, ok, by)
      [] devInfo.kind = "BlockDrive" -> fcAddBlockDrive(devInfo, ok, by)
      [] devInfo.kind = "kataVSOCK" -> fcAddVsock(devInfo, ok, by)
      [] OTHER -> <<>>

(* addDevice without its readiness test: it dispatches at once. *)
addDeviceResultNoQueue(devInfo, devType, st, ok, by) ==
    [queued |-> <<>>,
     calls |-> dispatch(devInfo, ok, by),
     closed |-> vhostFdClose(devInfo, ok),
     err |-> (dispatch(devInfo, ok, by) # <<>> /\ ~ok)]

(***************************************************************************)
(* addDevice with readiness st read under the read lock: the entries it    *)
(* appends to fc.pendingDevices, the calls it issues, the descriptors it   *)
(* closes and whether it returns an error.                                 *)
(***************************************************************************)
addDeviceResult(devInfo, devType, st, ok, by) ==
    IF st = notReady
    THEN [queued |-> <<firecrackerDevice(devInfo, devType)>>, calls |-> <<>>, closed |-> 0,
          err |-> FALSE]
    ELSE [queued |-> <<>>,
          calls |-> dispatch(devInfo, ok, by),
          closed |-> vhostFdClose(devInfo, ok),
          err |-> (dispatch(devInfo, ok, by) # <<>> /\ ~ok)]

(* The answers that differ for a device: one that issues no call has one. *)
DeviceAnswers(devInfo, st) ==
    IF st = notReady \/ dispatch(devInfo, TRUE, By(st, 0, 0)) = <<>> THEN {TRUE} ELSE Answers

Zeros(n) == [i \in 1..n |-> 0]

(* addDevice called from a device thread. *)
addDevice ==
    /\ created
    /\ devOp = NoDevOp
    /\ pc # "return"
    /\ \E d \in AddInputs : \E ok \in DeviceAnswers(d.dev, state) :
         LET r == addDeviceResult(d.dev, d.devType, state, ok, By(state, 0, 0)) IN
           /\ state = notReady => Len(pendingDevices) < MaxQueue
           /\ pendingDevices' = pendingDevices \o r.queued
           /\ dispatched' = dispatched \o Zeros(Len(r.queued))
           /\ devCalls' = r.calls
           /\ devOp' = [op |-> "addDevice", arg |-> d, st |-> state, err |-> r.err,
                        closed |-> r.closed]
           /\ faults' = Fault(ok)
    /\ UNCHANGED <<stepVars, created, state, info, store, seqVars>>

(* vmRunning that takes a starting instance for a running one. *)
vmRunningOrStarting(resp) == resp \in {"Starting", "Running"}

(* vmRunning, given the answer of DescribeInstance ("error": the call failed). *)
vmRunning(resp) ==
    CASE resp = "error" -> FALSE
      [] resp = "Starting" -> FALSE
      [] resp = "Running" -> TRUE
      [] resp \in {"Uninitialized", "Halting", "Halted"} -> FALSE
      [] OTHER -> FALSE

(***************************************************************************)
(* fcUpdateBlockDrive: PatchGuestDriveByID on the slot of drive.Index,     *)
(* then BlockDeviceRescan if vmRunning().                                  *)
(***************************************************************************)
fcUpdateBlockDrive(drive, patchOk, resp, rescanOk, by) ==
    LET driveID == fcDriveIndexToID(drive.Index)
        patch == Call("patchDrive", driveID, drive.File, FALSE, FALSE, patchOk, by)
        describe == DescribeInstance(resp, by)
        rescan == Call("BlockDeviceRescan", driveID, "", FALSE, FALSE, rescanOk, by)
    IN  IF ~patchOk THEN [calls |-> <<patch>>, err |-> TRUE]
        ELSE IF vmRunning(resp) THEN [calls |-> <<patch, describe, rescan>>, err |-> ~rescanOk]
        ELSE [calls |-> <<patch, describe>>, err |-> FALSE]

(* hotplugAddDevice that hands a network endpoint to the Control Channel. *)
hotplugAddDeviceResultWithNet(devInfo, devType, patchOk, resp, rescanOk, by) ==
    CASE devType = "blockDev" -> fcUpdateBlockDrive(devInfo, patchOk, resp, rescanOk, by)
      [] devType = "netDev" -> [calls |-> fcAddNetDevice(devInfo, TRUE, by), err |-> FALSE]
      [] OTHER -> [calls |-> <<>>, err |-> TRUE]

(* hotplugAddDevice, given the answers of the Control Channel. *)
hotplugAddDeviceResult(devInfo, devType, patchOk, resp, rescanOk, by) ==
    IF devType = "blockDev"
    THEN fcUpdateBlockDrive(devInfo, patchOk, resp, rescanOk, by)
    ELSE [calls |-> <<>>, err |-> TRUE]

(* The answers the Control Channel may give to one hotplugAddDevice. *)
HotplugAnswers ==
    { <<TRUE, s, TRUE>> : s \in InstanceStates }
    \cup (IF faults < MaxFaults
          THEN {<<FALSE, "Running", TRUE>>, <<TRUE, "error", TRUE>>, <<TRUE, "Running", FALSE>>}
          ELSE {})

hotplugAddDevice ==
    /\ created
    /\ devOp = NoDevOp
    /\ pc = "idle"
    /\ \E d \in HotplugInputs : \E a \in HotplugAnswers :
         LET r == hotplugAddDeviceResult(d.dev, d.devType, a[1], a[2], a[3], By(state, 0, 0)) IN
           /\ d.devType # "blockDev" => a = <<TRUE, "Running", TRUE>>
           /\ devCalls' = r.calls
           /\ devOp' = [op |-> "hotplugAddDevice", arg |-> d, st |-> state, err |-> r.err,
                        closed |-> 0]
           /\ faults' = IF \E i \in 1..Len(r.calls) : ~r.calls[i].ok THEN faults + 1 ELSE faults
    /\ UNCHANGED <<stepVars, created, state, info, store, pendingDevices, seqVars, dispatched>>

(* hotplugRemoveDevice: returns nil, nil. *)
hotplugRemoveDevice ==
    /\ created
    /\ devOp = NoDevOp
    /\ pc = "idle"
    /\ \E d \in HotplugInputs :
         devOp' = [op |-> "hotplugRemoveDevice", arg |-> d, st |-> state, err |-> FALSE,
                   closed |-> 0]
    /\ devCalls' = <<>>
    /\ UNCHANGED <<stepVars, created, state, info, store, pendingDevices, seqVars, faults, dispatched>>

(* createSandbox: set(notReady), then a best-effort Load of fc.info. *)
createSandbox ==
    /\ ~created
    /\ devOp = NoDevOp
    /\ created' = TRUE
    /\ state' = notReady
    /\ info' = IF store # 0 THEN store ELSE info
    /\ UNCHANGED <<stepVars, store, pendingDevices, seqVars, faults, dispatched, devOp, devCalls>>

(* disconnect: set(notReady), called by the coordinating caller. *)
disconnect ==
    /\ created
    /\ devOp = NoDevOp
    /\ pc = "idle"
    /\ state' = notReady
    /\ UNCHANGED <<stepVars, created, info, store, pendingDevices, seqVars, faults, dispatched,
                   devOp, devCalls>>

(* disconnect called from another thread while startSandbox is running. *)
disconnectDuringStart ==
    /\ created
    /\ devOp = NoDevOp
    /\ running = "startSandbox"
    /\ pc # "return"
    /\ state' = notReady
    /\ UNCHANGED <<stepVars, created, info, store, pendingDevices, seqVars, faults, dispatched,
                   devOp, devCalls>>

(* The device thread returns from its call. *)
devReturn ==
    /\ devOp # NoDevOp
    /\ devOp' = NoDevOp
    /\ devCalls' = <<>>
    /\ UNCHANGED <<stepVars, created, state, info, store, pendingDevices, seqVars, faults, dispatched>>

(***************************************************************************)
(* fcEnd: the kill(2) calls it makes on pid and whether it returns an      *)
(* error; ok is the result of one kill(2).  alive: the first probe finds  *)
(* the process; termOk: SIGTERM is                                         *)
(* delivered; died: a probe of the wait loop fails before                  *)
(* fcStopSandboxTimeout; killOk: SIGKILL is delivered.                     *)
(***************************************************************************)
Kill(pid, sig, ok) == [pid |-> pid, sig |-> sig, ok |-> ok]

fcEnd(pid, alive, termOk, died, killOk) ==
    IF ~alive THEN [signals |-> <<Kill(pid, "0", FALSE)>>, err |-> FALSE]
    ELSE IF ~termOk
    THEN [signals |-> <<Kill(pid, "0", TRUE), Kill(pid, "SIGTERM", FALSE)>>, err |-> TRUE]
    ELSE IF died
    THEN [signals |-> <<Kill(pid, "0", TRUE), Kill(pid, "SIGTERM", TRUE), Kill(pid, "0", FALSE)>>,
          err |-> FALSE]
    ELSE [signals |-> <<Kill(pid, "0", TRUE), Kill(pid, "SIGTERM", TRUE), Kill(pid, "0", TRUE),
                        Kill(pid, "SIGKILL", killOk)>>,
          err |-> ~killOk]

(* What the process table may answer to one fcEnd. *)
FcEndAnswers ==
    {<<FALSE, TRUE, TRUE, TRUE>>, <<TRUE, FALSE, TRUE, TRUE>>, <<TRUE, TRUE, TRUE, TRUE>>,
     <<TRUE, TRUE, FALSE, TRUE>>, <<TRUE, TRUE, FALSE, FALSE>>}

(* stopSandbox that resets the readiness as disconnect does. *)
stopSandboxDisconnects ==
    /\ created
    /\ devOp = NoDevOp
    /\ pc = "idle"
    /\ \E a \in FcEndAnswers :
         LET r == fcEnd(info, a[1], a[2], a[3], a[4]) IN
           /\ signals' = r.signals
           /\ ret' = IF r.err THEN "err" ELSE "nil"
    /\ pc' = "return"
    /\ running' = "stopSandbox"
    /\ state' = notReady
    /\ UNCHANGED <<stepVars, closes, created, info, store, pendingDevices, err, rangeDevs, ri, calls,
                   failedStep, cleanups, starts, faults, dispatched, devOp, devCalls>>

(* stopSandbox: fcEnd(). *)
stopSandbox ==
    /\ created
    /\ devOp = NoDevOp
    /\ pc = "idle"
    /\ \E a \in FcEndAnswers :
         LET r == fcEnd(info, a[1], a[2], a[3], a[4]) IN
           /\ signals' = r.signals
           /\ ret' = IF r.err THEN "err" ELSE "nil"
    /\ pc' = "return"
    /\ running' = "stopSandbox"
    /\ UNCHANGED <<stepVars, closes, created, state, info, store, pendingDevices, err, rangeDevs, ri, calls,
                   failedStep, cleanups, starts, faults, dispatched, devOp, devCalls>>

(* The coordinating caller takes the result of startSandbox or stopSandbox. *)
return ==
    /\ pc = "return"
    /\ pc' = "idle"
    /\ running' = "none"
    /\ calls' = <<>>
    /\ signals' = <<>>
    /\ ret' = "none"
    /\ failedStep' = 0
    /\ cleanups' = 0
    /\ closes' = 0
    /\ err' = FALSE
    /\ rangeDevs' = <<>>
    /\ ri' = 1
    /\ UNCHANGED <<stepVars, created, state, info, store, pendingDevices, starts, faults, dispatched,
                   devOp, devCalls>>

(***************************************************************************)
(* startSandbox, one action per statement that calls out.                  *)
(***************************************************************************)
FirstFailure(step) == IF failedStep = 0 THEN step ELSE failedStep

(* After the last statement before the range loop, or one iteration of it. *)
RangeOrStart(devs, i) == IF i > Len(devs) THEN "fcStartVM" ELSE "range"

(***************************************************************************)
(* waitVMM(timeout): nil once DescribeInstance answers, whatever the       *)
(* instance state it reports; an error if timeout < 0 or the time runs out *)
(* ("error": no poll was answered).                                        *)
(***************************************************************************)
waitVMM(timeout, resp, by) ==
    IF timeout < 0 THEN [calls |-> <<>>, err |-> TRUE]
    ELSE [calls |-> <<DescribeInstance(resp, by)>>, err |-> (resp = "error")]

WaitAnswers == InstanceStates \cup (IF faults < MaxFaults THEN {"error"} ELSE {})

(* fcInit, cmd.Start(): on success records the PID and builds the client. *)
startSandbox ==
    /\ created
    /\ devOp = NoDevOp
    /\ pc = "idle"
    /\ starts < MaxStarts
    /\ starts' = starts + 1
    /\ running' = "startSandbox"
    /\ \E ok \in Answers :
         /\ faults' = Fault(ok)
         /\ IF ok
            THEN /\ info' = SpawnedPID(starts + 1)
                 /\ pc' = "fcInit.waitVMM"
                 /\ failedStep' = 0
                 /\ ret' = "none"
            ELSE /\ info' = info
                 /\ pc' = "return"
                 /\ failedStep' = 1
                 /\ ret' = "err"
    /\ UNCHANGED <<stepVars, closes, created, state, store, pendingDevices, err, rangeDevs, ri, calls, cleanups,
                   signals, dispatched, devOp, devCalls>>

(* fcInit, waitVMM(fcTimeout) and set(apiReady); a manager not yet         *)
(* configured reports Uninitialized.                                       *)
fcInitWaitVMM ==
    /\ pc = "fcInit.waitVMM"
    /\ devOp = NoDevOp
    /\ \E ok \in Answers :
         LET r == waitVMM(fcTimeout, IF ok THEN "Uninitialized" ELSE "error", By(NoState, 1, 0)) IN
         /\ faults' = Fault(ok)
         /\ calls' = calls \o r.calls
         /\ IF ~r.err
            THEN /\ state' = apiReady
                 /\ pc' = "fcInit.Store"
                 /\ UNCHANGED <<failedStep, ret>>
            ELSE /\ state' = state
                 /\ pc' = "return"
                 /\ failedStep' = 1
                 /\ ret' = "err"
    /\ UNCHANGED <<stepVars, closes, created, running, info, store, pendingDevices, err, rangeDevs, ri, cleanups, signals,
                   starts, dispatched, devOp, devCalls>>

(* fcInit, store.Store(store.Hypervisor, fc.info). *)
fcInitStore ==
    /\ pc = "fcInit.Store"
    /\ devOp = NoDevOp
    /\ \E ok \in Answers :
         /\ faults' = Fault(ok)
         /\ IF ok
            THEN /\ store' = info
                 /\ pc' = "fcSetVMBaseConfig"
                 /\ UNCHANGED <<failedStep, ret>>
            ELSE /\ store' = store
                 /\ pc' = "return"
                 /\ failedStep' = 1
                 /\ ret' = "err"
    /\ UNCHANGED <<stepVars, closes, created, running, state, info, pendingDevices, err, rangeDevs, ri, calls, cleanups,
                   signals, starts, dispatched, devOp, devCalls>>

(***************************************************************************)
(* A return statement of startSandbox after the defer statement: the       *)
(* deferred function runs fcEnd() if startSandbox's err, e, is not nil,    *)
(* and the caller gets the result.                                         *)
(***************************************************************************)
startSandboxDefer(e) ==
    /\ pc' = "return"
    /\ IF e
       THEN /\ cleanups' = cleanups + 1
            /\ \E a \in FcEndAnswers : signals' = fcEnd(info, a[1], a[2], a[3], a[4]).signals
       ELSE UNCHANGED <<cleanups, signals>>

(* fcSetVMBaseConfig; its error lives in an err of the if statement. *)
fcSetVMBaseConfig ==
    /\ pc = "fcSetVMBaseConfig"
    /\ devOp = NoDevOp
    /\ \E ok \in Answers :
         /\ faults' = Fault(ok)
         /\ calls' = Append(calls, Call("setMachineConfig", "", "", FALSE, FALSE, ok, By(NoState, 2, 0)))
         /\ IF ok
            THEN /\ pc' = "KernelAssetPath"
                 /\ UNCHANGED <<failedStep, ret, cleanups, signals>>
            ELSE /\ startSandboxDefer(err)
                 /\ failedStep' = 2
                 /\ ret' = "err"
    /\ UNCHANGED <<stepVars, closes, created, running, state, info, store, pendingDevices, err, rangeDevs, ri,
                   starts, dispatched, devOp, devCalls>>

(* kernelPath, err := fc.config.KernelAssetPath(): assigns startSandbox's err. *)
KernelAssetPath ==
    /\ pc = "KernelAssetPath"
    /\ devOp = NoDevOp
    /\ \E ok \in Answers :
         /\ faults' = Fault(ok)
         /\ err' = ~ok
         /\ IF ok
            THEN /\ pc' = "fcSetBootSource"
                 /\ UNCHANGED <<failedStep, ret, cleanups, signals>>
            ELSE /\ startSandboxDefer(TRUE)
                 /\ failedStep' = 3
                 /\ ret' = "err"
    /\ UNCHANGED <<stepVars, closes, created, running, state, info, store, pendingDevices, rangeDevs, ri, calls,
                   starts, dispatched, devOp, devCalls>>

(* fc.fcSetBootSource(kernelPath, formattedParams): the result is dropped. *)
fcSetBootSource ==
    /\ pc = "fcSetBootSource"
    /\ devOp = NoDevOp
    /\ \E ok \in Answers :
         /\ faults' = Fault(ok)
         /\ calls' = Append(calls, Call("setBootSource", "", "kernel", FALSE, FALSE, ok, By(NoState, 4, 0)))
         /\ failedStep' = IF ok THEN failedStep ELSE FirstFailure(4)
    /\ pc' = "InitrdAssetPath"
    /\ UNCHANGED <<stepVars, closes, created, running, state, info, store, pendingDevices, err, rangeDevs, ri, cleanups, ret,
                   signals, starts, dispatched, devOp, devCalls>>

(* InitrdAssetPath(), and ImageAssetPath() if the initrd path is empty. *)
ImagePaths == {<<"initrd", "">>, <<"", "image">>}
ImagePathErrors == {<<"error", "">>, <<"", "error">>}

InitrdAssetPath ==
    /\ pc = "InitrdAssetPath"
    /\ devOp = NoDevOp
    /\ \E a \in ImagePaths \cup (IF faults < MaxFaults THEN ImagePathErrors ELSE {}) :
         LET ok == a \in ImagePaths IN
         /\ faults' = Fault(ok)
         /\ err' = ~ok
         /\ IF ok
            THEN /\ pc' = "fcSetVMRootfs"
                 /\ UNCHANGED <<failedStep, ret, cleanups, signals>>
            ELSE /\ startSandboxDefer(TRUE)
                 /\ failedStep' = FirstFailure(5)
                 /\ ret' = "err"
    /\ UNCHANGED <<stepVars, closes, created, running, state, info, store, pendingDevices, rangeDevs, ri, calls,
                   starts, dispatched, devOp, devCalls>>

(* fc.fcSetVMRootfs(image): the result is dropped. *)
fcSetVMRootfs ==
    /\ pc = "fcSetVMRootfs"
    /\ devOp = NoDevOp
    /\ \E ok \in Answers :
         /\ faults' = Fault(ok)
         /\ calls' = Append(calls, Call("putDrive", "rootfs", "image", TRUE, FALSE, ok, By(NoState, 5, 0)))
         /\ failedStep' = IF ok THEN failedStep ELSE FirstFailure(5)
    /\ pc' = "createDiskPool"
    /\ UNCHANGED <<stepVars, closes, created, running, state, info, store, pendingDevices, err, rangeDevs, ri, cleanups, ret,
                   signals, starts, dispatched, devOp, devCalls>>

(***************************************************************************)
(* createDiskPool: the calls of its loop when the first n iterations       *)
(* succeed; iteration n, if n < fcDiskPoolSize, fails in store.Raw (no     *)
(* call) or in PutGuestDriveByID (a failed call) and ends the loop.        *)
(***************************************************************************)
createDiskPool(n, rawFails, by) ==
    [i \in 1..(IF n < fcDiskPoolSize /\ ~rawFails THEN n + 1 ELSE n) |->
        Call("putDrive", fcDriveIndexToID(i - 1), "scratch", FALSE, FALSE, i <= n, by)]

PoolAnswers ==
    {<<fcDiskPoolSize, FALSE>>}
    \cup (IF faults < MaxFaults THEN PoolFailures \X BOOLEAN ELSE {})

(* fc.createDiskPool(): the result is dropped; then the range expression. *)
startSandboxCreateDiskPool ==
    /\ pc = "createDiskPool"
    /\ devOp = NoDevOp
    /\ \E a \in PoolAnswers :
         /\ faults' = Fault(a[1] = fcDiskPoolSize)
         /\ calls' = calls \o createDiskPool(a[1], a[2], By(NoState, 6, 0))
         /\ failedStep' = IF a[1] = fcDiskPoolSize THEN failedStep ELSE FirstFailure(6)
    /\ rangeDevs' = pendingDevices
    /\ ri' = 1
    /\ pc' = RangeOrStart(pendingDevices, 1)
    /\ UNCHANGED <<stepVars, closes, created, running, state, info, store, pendingDevices, err, cleanups, ret, signals,
                   starts, dispatched, devOp, devCalls>>

(* A range loop that walks the slice from its end. *)
RangeElementBackwards(devs, i) == devs[Len(devs) + 1 - i]

(* The element the range loop visits in its i-th iteration. *)
RangeElement(devs, i) == devs[i]

(* One iteration: err = fc.addDevice(d.dev, d.devType). *)
startSandboxRange ==
    /\ pc = "range"
    /\ devOp = NoDevOp
    /\ LET d == RangeElement(rangeDevs, ri) IN
       \E ok \in DeviceAnswers(d.dev, state) :
         LET r == addDeviceResult(d.dev, d.devType, state, ok, By(state, 7, ri)) IN
           /\ faults' = Fault(ok)
           /\ pendingDevices' = pendingDevices \o r.queued
           /\ dispatched' = [i \in 1..Len(dispatched) |->
                                IF i = ri THEN dispatched[i] + Len(r.calls) ELSE dispatched[i]]
                            \o Zeros(Len(r.queued))
           /\ calls' = calls \o r.calls
           /\ closes' = closes + r.closed
           /\ err' = r.err
           /\ IF r.err
              THEN /\ startSandboxDefer(r.err)
                   /\ failedStep' = FirstFailure(7)
                   /\ ret' = "err"
                   /\ ri' = ri
              ELSE /\ pc' = RangeOrStart(rangeDevs, ri + 1)
                   /\ ri' = ri + 1
                   /\ UNCHANGED <<failedStep, ret, cleanups, signals>>
    /\ UNCHANGED <<stepVars, created, running, state, info, store, rangeDevs, starts, devOp, devCalls>>

(* fcStartVM: InstanceStart, then set(vmReady); the error is an err of the if. *)
fcStartVM ==
    /\ pc = "fcStartVM"
    /\ devOp = NoDevOp
    /\ \E ok \in Answers :
         /\ faults' = Fault(ok)
         /\ calls' = Append(calls, Call("InstanceStart", "", "", FALSE, FALSE, ok, By(NoState, 8, 0)))
         /\ IF ok
            THEN /\ state' = vmReady
                 /\ pc' = "waitVMM"
                 /\ UNCHANGED <<failedStep, ret, cleanups, signals>>
            ELSE /\ state' = state
                 /\ startSandboxDefer(err)
                 /\ failedStep' = FirstFailure(8)
                 /\ ret' = "err"
    /\ UNCHANGED <<stepVars, closes, created, running, info, store, pendingDevices, err, rangeDevs, ri, starts,
                   dispatched, devOp, devCalls>>

(* return fc.waitVMM(timeout). *)
startSandboxWaitVMM ==
    /\ pc = "waitVMM"
    /\ devOp = NoDevOp
    /\ \E timeout \in Timeouts : \E resp \in WaitAnswers :
         LET r == waitVMM(timeout, resp, By(NoState, 9, 0)) IN
         /\ timeout < 0 => resp = "Running"
         /\ faults' = Fault(resp # "error")
         /\ calls' = calls \o r.calls
         /\ ret' = IF r.err THEN "err" ELSE "nil"
         /\ failedStep' = IF r.err THEN FirstFailure(9) ELSE failedStep
    /\ startSandboxDefer(err)
    /\ UNCHANGED <<stepVars, closes, created, running, state, info, store, pendingDevices, err, rangeDevs, ri,
                   starts, dispatched, devOp, devCalls>>

Next ==
    \/ createSandbox
    \/ disconnect
    \/ addDevice
    \/ hotplugAddDevice
    \/ hotplugRemoveDevice
    \/ devReturn
    \/ stopSandbox
    \/ return
    \/ startSandbox
    \/ fcInitWaitVMM
    \/ fcInitStore
    \/ fcSetVMBaseConfig
    \/ KernelAssetPath
    \/ fcSetBootSource
    \/ InitrdAssetPath
    \/ fcSetVMRootfs
    \/ startSandboxCreateDiskPool
    \/ startSandboxRange
    \/ fcStartVM
    \/ startSandboxWaitVMM

Spec == Init /\ [][Next]_vars

(* The same, with disconnect racing startSandbox. *)
NextRace ==
    \/ Next
    \/ disconnectDuringStart

SpecRace == Init /\ [][NextRace]_vars

(* addDevice called from a device thread once startSandbox has returned   *)
(* an error, before its caller does anything else.                        *)
addDeviceAfterFailedStart ==
    /\ devOp = NoDevOp
    /\ running = "startSandbox"
    /\ pc = "return"
    /\ ret = "err"
    /\ \E d \in AddInputs : \E ok \in DeviceAnswers(d.dev, state) :
         LET r == addDeviceResult(d.dev, d.devType, state, ok, By(state, 0, 0)) IN
           /\ state = notReady => Len(pendingDevices) < MaxQueue
           /\ pendingDevices' = pendingDevices \o r.queued
           /\ dispatched' = dispatched \o Zeros(Len(r.queued))
           /\ devCalls' = r.calls
           /\ devOp' = [op |-> "addDevice", arg |-> d, st |-> state, err |-> r.err,
                        closed |-> r.closed]
           /\ faults' = Fault(ok)
    /\ UNCHANGED <<stepVars, created, state, info, store, seqVars>>

(* Spec, with device threads that call addDevice after a failed start. *)
NextAfter ==
    \/ Next
    \/ addDeviceAfterFailedStart

SpecAfter == Init /\ [][NextAfter]_vars

(***************************************************************************)
(* waitVMM poll by poll.  wait.elapsed is time.Since(timeStart) in         *)
(* milliseconds: a poll takes no time, the sleep takes waitVMMSleep.       *)
(***************************************************************************)
mainVars == <<created, state, info, store, pendingDevices, seqVars, faults, dispatched,
              devOp, devCalls>>

(* int(d.Seconds()) of a duration of ms milliseconds. *)
Seconds(ms) == ms \div 1000

(* waitVMM(timeout): the test of the timeout, and timeStart := time.Now(). *)
waitVMMCall ==
    /\ wait.pc = "idle"
    /\ \E timeout \in PollTimeouts :
         wait' = IF timeout < 0
                 THEN [pc |-> "return", timeout |-> timeout, elapsed |-> 0, ret |-> "invalid"]
                 ELSE [pc |-> "poll", timeout |-> timeout, elapsed |-> 0, ret |-> "none"]
    /\ UNCHANGED <<mainVars, end, proc, thr>>

(* One iteration up to the sleep: DescribeInstance, then the test of the  *)
(* elapsed time.                                                          *)
waitVMMPoll ==
    /\ wait.pc = "poll"
    /\ \E answered \in BOOLEAN :
         wait' = IF answered THEN [wait EXCEPT !.pc = "return", !.ret = "nil"]
                 ELSE IF Seconds(wait.elapsed) > wait.timeout
                 THEN [wait EXCEPT !.pc = "return", !.ret = "timeout"]
                 ELSE [wait EXCEPT !.pc = "sleep"]
    /\ UNCHANGED <<mainVars, end, proc, thr>>

(* time.Sleep(10 * time.Millisecond). *)
waitVMMSleeps ==
    /\ wait.pc = "sleep"
    /\ wait' = [wait EXCEPT !.pc = "poll", !.elapsed = @ + waitVMMSleep]
    /\ UNCHANGED <<mainVars, end, proc, thr>>

NextWait ==
    \/ waitVMMCall
    \/ waitVMMPoll
    \/ waitVMMSleeps

SpecWait == Init /\ [][NextWait]_vars

(***************************************************************************)
(* fcEnd, one kill(2) at a time, against the process table.  proc tells    *)
(* whether the process of the PID that createSandbox loaded from the store *)
(* exists; it may exit at any moment and it exits when SIGKILL reaches it. *)
(* end.elapsed is time.Since(tInit) in milliseconds.                       *)
(***************************************************************************)

(* syscall.Kill(pid, sig) succeeds if the process exists; pid 0 names the *)
(* process group of the caller, which exists.                             *)
syscallKill(pid) == pid = 0 \/ proc = "alive"

(* The manager process exits. *)
procExit ==
    /\ proc = "alive"
    /\ proc' = "dead"
    /\ UNCHANGED <<mainVars, wait, end, thr>>

(* stopSandbox calls fcEnd: pid := fc.info.PID. *)
fcEndCall ==
    /\ created
    /\ end.pc = "idle"
    /\ end.n < MaxEnds
    /\ end' = [end EXCEPT !.pc = "probe", !.pid = info, !.elapsed = 0, !.signals = <<>>,
                          !.ret = "none", !.n = @ + 1]
    /\ UNCHANGED <<mainVars, wait, proc, thr>>

(* fcEnd whose first probe does not end it. *)
fcEndProbeThenTerm ==
    /\ end.pc = "probe"
    /\ end' = [end EXCEPT !.signals = Append(@, Kill(end.pid, "0", syscallKill(end.pid))),
                          !.pc = "term",
                          !.sawDead = @ \/ ~syscallKill(end.pid)]
    /\ UNCHANGED <<mainVars, wait, proc, thr>>

(* syscall.Kill(pid, syscall.Signal(0)): return nil if it fails. *)
fcEndProbe ==
    /\ end.pc = "probe"
    /\ end' = IF syscallKill(end.pid)
              THEN [end EXCEPT !.signals = Append(@, Kill(end.pid, "0", TRUE)), !.pc = "term"]
              ELSE [end EXCEPT !.signals = Append(@, Kill(end.pid, "0", FALSE)),
                               !.pc = "return", !.ret = "nil", !.sawDead = TRUE]
    /\ UNCHANGED <<mainVars, wait, proc, thr>>

(* syscall.Kill(pid, syscall.SIGTERM): return err if it fails; tInit. *)
fcEndTerm ==
    /\ end.pc = "term"
    /\ end' = IF syscallKill(end.pid)
              THEN [end EXCEPT !.signals = Append(@, Kill(end.pid, "SIGTERM", TRUE)),
                               !.pc = "poll", !.elapsed = 0]
              ELSE [end EXCEPT !.signals = Append(@, Kill(end.pid, "SIGTERM", FALSE)),
                               !.pc = "return", !.ret = "err"]
    /\ UNCHANGED <<mainVars, wait, proc, thr>>

(* One iteration of the wait loop up to the sleep: the probe, then the    *)
(* test of the elapsed time against fcStopSandboxTimeout.                  *)
fcEndPoll ==
    /\ end.pc = "poll"
    /\ end' = IF ~syscallKill(end.pid)
              THEN [end EXCEPT !.signals = Append(@, Kill(end.pid, "0", FALSE)),
                               !.pc = "return", !.ret = "nil", !.sawDead = TRUE]
              ELSE IF end.elapsed >= fcStopSandboxTimeout * 1000
              THEN [end EXCEPT !.signals = Append(@, Kill(end.pid, "0", TRUE)), !.pc = "kill"]
              ELSE [end EXCEPT !.signals = Append(@, Kill(end.pid, "0", TRUE)), !.pc = "sleep"]
    /\ UNCHANGED <<mainVars, wait, proc, thr>>

(* time.Sleep(50 * time.Millisecond). *)
fcEndSleeps ==
    /\ end.pc = "sleep"
    /\ end' = [end EXCEPT !.pc = "poll", !.elapsed = @ + fcEndSleep]
    /\ UNCHANGED <<mainVars, wait, proc, thr>>

(* return syscall.Kill(pid, syscall.SIGKILL). *)
fcEndKill ==
    /\ end.pc = "kill"
    /\ end' = [end EXCEPT !.signals = Append(@, Kill(end.pid, "SIGKILL", syscallKill(end.pid))),
                          !.pc = "return",
                          !.ret = IF syscallKill(end.pid) THEN "nil" ELSE "err"]
    /\ proc' = IF end.pid # 0 THEN "dead" ELSE proc
    /\ UNCHANGED <<mainVars, wait, thr>>

(* The caller of stopSandbox takes the result. *)
fcEndReturn ==
    /\ end.pc = "return"
    /\ end' = [end EXCEPT !.pc = "idle", !.signals = <<>>, !.ret = "none", !.elapsed = 0]
    /\ UNCHANGED <<mainVars, wait, proc, thr>>

NextEnd ==
    \/ createSandbox
    \/ procExit
    \/ fcEndCall
    \/ fcEndProbe
    \/ fcEndTerm
    \/ fcEndPoll
    \/ fcEndSleeps
    \/ fcEndKill
    \/ fcEndReturn

SpecEnd == Init /\ [][NextEnd]_vars

(***************************************************************************)
(* addDevice statement by statement, for device threads that call it at    *)
(* the same time while the readiness is notReady.  RLock admits every      *)
(* reader, so the threads are inside together; the append reads the slice  *)
(* fc.pendingDevices and then assigns the result, and these are separate   *)
(* accesses of unsynchronized memory.  thr[t].done holds the entries of    *)
(* the calls of thread t that returned nil.  The branch of a readiness     *)
(* other than notReady is the action addDevice.                            *)
(***************************************************************************)
Inside == {t \in Threads : thr[t].pc # "idle"}

RECURSIVE DoneCount(_)
DoneCount(T) ==
    IF T = {} THEN 0
    ELSE LET t == CHOOSE x \in T : TRUE IN Len(thr[t].done) + DoneCount(T \ {t})

(* fc.state.RLock(); fc.state.state == notReady; dev := firecrackerDevice{...}. *)
addDeviceRLock(t) ==
    /\ created
    /\ thr[t].pc = "idle"
    /\ state = notReady
    /\ DoneCount(Threads) + Cardinality(Inside) < MaxQueue
    /\ \E d \in AddInputs : thr' = [thr EXCEPT ![t].pc = "append", ![t].arg = d]
    /\ UNCHANGED <<mainVars, wait, end, proc>>

(* append(fc.pendingDevices, dev): the read of fc.pendingDevices. *)
addDeviceAppend(t) ==
    /\ thr[t].pc = "append"
    /\ thr' = [thr EXCEPT ![t].pc = "assign", ![t].slice = Append(pendingDevices, thr[t].arg)]
    /\ UNCHANGED <<mainVars, wait, end, proc>>

(* fc.pendingDevices = ...: the write of fc.pendingDevices. *)
addDeviceAssign(t) ==
    /\ thr[t].pc = "assign"
    /\ pendingDevices' = thr[t].slice
    /\ dispatched' = Zeros(Len(thr[t].slice))
    /\ thr' = [thr EXCEPT ![t].pc = "return", ![t].slice = <<>>]
    /\ UNCHANGED <<created, state, info, store, seqVars, faults, devOp, devCalls, wait, end, proc>>

(* return nil, and the deferred fc.state.RUnlock(). *)
addDeviceRUnlock(t) ==
    /\ thr[t].pc = "return"
    /\ thr' = [thr EXCEPT ![t].pc = "idle", ![t].done = Append(@, thr[t].arg),
                          ![t].arg = NoThread.arg]
    /\ UNCHANGED <<mainVars, wait, end, proc>>

NextAppend ==
    \/ createSandbox
    \/ \E t \in Threads : addDeviceRLock(t)
    \/ \E t \in Threads : addDeviceAppend(t)
    \/ \E t \in Threads : addDeviceAssign(t)
    \/ \E t \in Threads : addDeviceRUnlock(t)

SpecAppend == Init /\ [][NextAppend]_vars

(***************************************************************************)
(* Properties.                                                             *)
(***************************************************************************)
TypeOK ==
    /\ created \in BOOLEAN
    /\ state \in {notReady, apiReady, vmReady}
    /\ running \in {"none", "startSandbox", "stopSandbox"}
    /\ ret \in {"none", "nil", "err"}
    /\ Len(dispatched) = Len(pendingDevices)
    /\ faults \in 0..MaxFaults
    /\ starts \in 0..MaxStarts

(* startSandbox has returned to its caller, which holds its result. *)
StartReturned == running = "startSandbox" /\ pc = "return"

(* The calls of the range loop of startSandbox, in the order issued. *)
IsFlushCall(c) == c.step = 7
FlushCalls == SelectSeq(calls, IsFlushCall)

(* The calls that carry a device to the Control Channel. *)
IsDeviceCall(c) ==
    \/ c.op \in {"putNetworkInterface", "putVsock", "patchDrive", "BlockDeviceRescan"}
    \/ c.op = "putDrive" /\ c.step \in {0, 7}

(* C1: every change of the readiness is an increase under notReady <     *)
(* apiReady < vmReady, or a reset to notReady made by disconnect().       *)
C1_ReadinessOnlyRises ==
    [][state' # state
        => (state' > state \/ (state' = notReady /\ (disconnect \/ disconnectDuringStart)))]_vars

(* C2: addDevice called while the readiness is notReady issues no Control *)
(* Channel call, appends exactly the entry {descriptor, type} to the end  *)
(* of the pending queue and returns success, for every descriptor.        *)
C2_AddDeviceQueuesWhileNotReady ==
    [][(devOp = NoDevOp /\ devOp'.op = "addDevice" /\ state = notReady)
        => /\ devCalls' = <<>>
           /\ calls' = calls
           /\ pendingDevices' = Append(pendingDevices, devOp'.arg)
           /\ devOp'.err = FALSE]_vars

(* C2 witness: an unrecognized descriptor was queued behind another entry. *)
C2_Witness ==
    /\ devOp.op = "addDevice"
    /\ devOp.st = notReady
    /\ devOp.arg.dev.kind = "other"
    /\ Len(pendingDevices) = 2
    /\ pendingDevices[2] = devOp.arg

(* C3: startSandbox dispatches the queued devices in insertion order:     *)
(* each call of the flush is the call of the queue entry it names, and    *)
(* the call for an earlier entry is issued before that for a later one.   *)
C3_FlushInQueueOrder ==
    /\ \A k \in 1..Len(FlushCalls) :
         LET c == FlushCalls[k] IN
           /\ c.qi \in 1..Len(pendingDevices)
           /\ <<c>> = dispatch(pendingDevices[c.qi].dev, c.ok, By(c.st, 7, c.qi))
    /\ \A j, k \in 1..Len(FlushCalls) : j < k => FlushCalls[j].qi < FlushCalls[k].qi

(* C3 witness: two different queued devices were dispatched by one flush. *)
C3_Witness ==
    /\ StartReturned
    /\ Len(FlushCalls) = 2
    /\ FlushCalls[1].op # FlushCalls[2].op
    /\ FlushCalls[1].ok /\ FlushCalls[2].ok

(* C4: no queue entry is dispatched to the Control Channel more than      *)
(* once, and entries are appended only while the readiness is notReady.   *)
C4_FlushedExactlyOnce ==
    [][/\ \A i \in 1..Len(dispatched') : dispatched'[i] <= 1
       /\ Len(pendingDevices') > Len(pendingDevices) => state = notReady]_vars

(* C5: every call that carries a device (putNetworkInterface, putDrive of *)
(* an added block drive, putVsock, patchDrive, BlockDeviceRescan) is      *)
(* issued while the readiness is apiReady or vmReady.                     *)
C5_DeviceCallsOnlyWhenReady ==
    /\ \A k \in 1..Len(calls) : IsDeviceCall(calls[k]) => calls[k].st \in {apiReady, vmReady}
    /\ \A k \in 1..Len(devCalls) :
         IsDeviceCall(devCalls[k]) => devCalls[k].st \in {apiReady, vmReady}

(* C6: the first failing step of startSandbox aborts it: no call of a     *)
(* later step is issued and startSandbox returns an error.                *)
C6_FirstFailureAborts ==
    (running = "startSandbox" /\ failedStep # 0)
        => /\ \A k \in 1..Len(calls) : calls[k].step <= failedStep
           /\ pc = "return" => ret = "err"

(* C7: when startSandbox returns an error after the manager process was   *)
(* spawned, fcEnd has been invoked as cleanup.                            *)
C7_FailureRunsFcEnd ==
    (StartReturned /\ ret = "err" /\ calls # <<>>) => cleanups >= 1

(* C8: when startSandbox issues the start action, each placeholder drive  *)
(* drive_0 .. drive_7 has been declared successfully exactly once, as a   *)
(* writable, non-root drive.                                              *)
C8_PoolDeclaredBeforeStart ==
    (\E k \in 1..Len(calls) : calls[k].op = "InstanceStart")
        => \A i \in 0..(fcDiskPoolSize - 1) :
             Cardinality({k \in 1..Len(calls) :
                             /\ calls[k].op = "putDrive"
                             /\ calls[k].id = fcDriveIndexToID(i)
                             /\ calls[k].ok /\ ~calls[k].ro /\ ~calls[k].root}) = 1

(* C9: hotplugAddDevice of a block drive with pool index i issues         *)
(* patchDrive on "drive_<i>" with the drive's backing path; it issues     *)
(* BlockDeviceRescan with payload "drive_<i>" afterwards if and only if   *)
(* the patch succeeded and DescribeInstance then reported Running; in     *)
(* every other case after a successful patch it issues no rescan and      *)
(* returns success.                                                       *)
C9_HotplugPatchesAndRescansIfRunning ==
    (devOp.op = "hotplugAddDevice" /\ devOp.arg.devType = "blockDev")
        => LET d == devOp.arg.dev
               n == Len(devCalls)
               rescans == {k \in 1..n : devCalls[k].op = "BlockDeviceRescan"}
               reportedRunning ==
                   /\ n >= 2
                   /\ devCalls[1].ok
                   /\ devCalls[2].op = "describeInstance"
                   /\ devCalls[2].ok
                   /\ devCalls[2].resp = "Running"
           IN  /\ n >= 1
               /\ devCalls[1].op = "patchDrive"
               /\ devCalls[1].id = fcDriveIndexToID(d.Index)
               /\ d.Index = 3 => devCalls[1].id = "drive_3"
               /\ devCalls[1].path = d.File
               /\ \A k \in 2..n : devCalls[k].op # "patchDrive"
               /\ (rescans # {}) <=> reportedRunning
               /\ \A k \in rescans : k = 3 /\ devCalls[k].id = devCalls[1].id
               /\ (devCalls[1].ok /\ ~reportedRunning) => ~devOp.err

(* C9 witness: the drive of pool index 3 was patched and rescanned. *)
C9_Witness ==
    /\ devOp.op = "hotplugAddDevice"
    /\ devOp.arg.dev.Index = 3
    /\ Len(devCalls) = 3
    /\ devCalls[3].op = "BlockDeviceRescan"
    /\ devCalls[3].id = "drive_3"
    /\ ~devOp.err

(* C10: hotplugAddDevice of a block drive whose pool index is outside     *)
(* 0 .. fcDiskPoolSize - 1 returns an error and issues no call.           *)
C10_OutOfRangeIndexRejected ==
    (/\ devOp.op = "hotplugAddDevice"
     /\ devOp.arg.devType = "blockDev"
     /\ devOp.arg.dev.Index \notin 0..(fcDiskPoolSize - 1))
        => devOp.err /\ devCalls = <<>>

(***************************************************************************)
(* Properties of fcInit, of the final wait, of the descriptors and of the  *)
(* order of the boot sequence.                                             *)
(***************************************************************************)
Last(q) == q[Len(q)]

(* The poll of fcInit's waitVMM was not answered. *)
FcInitWaitFailed ==
    /\ StartReturned
    /\ failedStep = 1
    /\ calls # <<>>
    /\ ~Last(calls).ok

(* C14: once the manager process is spawned, the store holds its PID      *)
(* while fcInit's wait for the Control Channel runs and after that wait   *)
(* has failed.                                                            *)
C14_PIDStoredBeforeWait ==
    ((running = "startSandbox" /\ pc = "fcInit.waitVMM") \/ FcInitWaitFailed)
        => store = info

(* C15: startSandbox returns success only if a poll of its final wait     *)
(* (step 9) reported the instance state Running.                          *)
C15_SuccessOnlyIfRunning ==
    (StartReturned /\ ret = "nil")
        => \E k \in 1..Len(calls) :
             /\ calls[k].step = 9
             /\ calls[k].op = "describeInstance"
             /\ calls[k].resp = "Running"

(* The putVsock calls of the range loop of startSandbox. *)
FlushVsockCalls == {k \in 1..Len(calls) : calls[k].op = "putVsock"}

(* C16: an addDevice that dispatches a vsock has closed the vsock's host  *)
(* descriptor when it returns, whether putVsock succeeded or failed; so   *)
(* has the flush of startSandbox for every putVsock it issued.            *)
C16_VsockDescriptorClosed ==
    /\ (/\ devOp.op = "addDevice"
        /\ devOp.arg.dev.kind = "kataVSOCK"
        /\ devOp.st # notReady) => devOp.closed = 1
    /\ closes = Cardinality(FlushVsockCalls)

(* C17: hotplugAddDevice of a type other than blockDev returns an error,  *)
(* issues no call and leaves the readiness and the pending queue as they  *)
(* were; hotplugRemoveDevice returns success and does nothing, for every  *)
(* type.                                                                  *)
C17_HotplugOnlyBlock ==
    [][/\ (/\ devOp = NoDevOp
           /\ devOp'.op = "hotplugAddDevice"
           /\ devOp'.arg.devType # "blockDev")
            => /\ devOp'.err
               /\ devCalls' = <<>>
               /\ UNCHANGED <<calls, state, pendingDevices>>
       /\ (devOp = NoDevOp /\ devOp'.op = "hotplugRemoveDevice")
            => /\ ~devOp'.err
               /\ devCalls' = <<>>
               /\ UNCHANGED <<calls, state, pendingDevices, info, store>>]_vars

(* C17 witness: a network endpoint was refused on a started instance that *)
(* has a queue.                                                           *)
C17_Witness ==
    /\ devOp.op = "hotplugAddDevice"
    /\ devOp.arg.devType = "netDev"
    /\ devOp.err
    /\ devCalls = <<>>
    /\ state = vmReady
    /\ pendingDevices # <<>>

(* The position in calls of the start action (0: not issued). *)
StartAction ==
    IF \E k \in 1..Len(calls) : calls[k].op = "InstanceStart"
    THEN CHOOSE k \in 1..Len(calls) :
           /\ calls[k].op = "InstanceStart"
           /\ \A j \in 1..(k - 1) : calls[j].op # "InstanceStart"
    ELSE 0

(* The calls that precede the start action are those of steps 1 to 7, in  *)
(* order, and all succeeded.                                              *)
BootOrder(cs, n) ==
    /\ n > 4 + fcDiskPoolSize
    /\ \A k \in 1..(n - 1) : cs[k].ok
    /\ cs[1].op = "describeInstance" /\ cs[1].step = 1
    /\ cs[2].op = "setMachineConfig"
    /\ cs[3].op = "setBootSource"
    /\ cs[4].op = "putDrive" /\ cs[4].id = "rootfs" /\ cs[4].ro /\ ~cs[4].root
    /\ \A i \in 0..(fcDiskPoolSize - 1) :
         /\ cs[5 + i].op = "putDrive"
         /\ cs[5 + i].id = fcDriveIndexToID(i)
         /\ cs[5 + i].step = 6
    /\ \A k \in (5 + fcDiskPoolSize)..(n - 1) : cs[k].step = 7

(* C18: when startSandbox issues the start action, the successful calls   *)
(* describeInstance, setMachineConfig, setBootSource, putDrive("rootfs"), *)
(* putDrive of drive_0 .. drive_7 and the queued device calls precede it  *)
(* in this order; the readiness becomes vmReady only when the start       *)
(* action was accepted.                                                   *)
C18_BootOrder ==
    [][/\ StartAction' # 0 => BootOrder(calls', StartAction')
       /\ (state' = vmReady /\ state # vmReady)
            => (calls' # <<>> /\ Last(calls').op = "InstanceStart" /\ Last(calls').ok)]_vars

(* The descriptors the type switch of addDevice has a case for. *)
Recognized(d) == dispatch(d.dev, TRUE, By(apiReady, 0, 0)) # <<>>

(* C19: when startSandbox issues the start action, every recognized entry *)
(* the queue held when the flush began has been sent to the Control       *)
(* Channel; an addDevice of a recognized descriptor ends with a call or   *)
(* with the entry in the queue.                                           *)
C19_FlushDispatchesAll ==
    /\ StartAction # 0
         => \A i \in 1..Len(rangeDevs) :
              Recognized(rangeDevs[i])
                => \E k \in 1..Len(calls) : calls[k].step = 7 /\ calls[k].qi = i
    /\ (devOp.op = "addDevice" /\ Recognized(devOp.arg))
         => \/ devCalls # <<>>
            \/ \E i \in 1..Len(pendingDevices) : pendingDevices[i] = devOp.arg

(***************************************************************************)
(* Properties of fcEnd, of waitVMM and of concurrent addDevice calls.      *)
(***************************************************************************)

(* C11: an fcEnd whose first probe of the PID fails returns success and   *)
(* sends neither SIGTERM nor SIGKILL; so does every fcEnd that follows    *)
(* one that saw the process dead.                                         *)
C11_DeadProcessNoSignal ==
    [][(end.pc # "return" /\ end'.pc = "return"
        /\ (~end'.signals[1].ok \/ (end.sawDead /\ end.pid # 0)))
        => /\ end'.ret = "nil"
           /\ end'.signals = <<Kill(end.pid, "0", FALSE)>>]_vars

(* C11 witness: the second fcEnd, after the first saw the process dead,   *)
(* has returned after one failed probe.                                   *)
C11_Witness ==
    /\ end.pc = "return"
    /\ end.n = 2
    /\ end.sawDead
    /\ end.pid # 0
    /\ end.ret = "nil"
    /\ end.signals = <<Kill(end.pid, "0", FALSE)>>

(* C12: an fcEnd that has sent SIGTERM successfully sends SIGKILL before  *)
(* it returns, whether a probe of its wait loop saw the process dead or   *)
(* the time ran out.                                                      *)
C12_KillAlwaysFollowsTerm ==
    (/\ end.pc = "return"
     /\ \E k \in 1..Len(end.signals) : end.signals[k].sig = "SIGTERM" /\ end.signals[k].ok)
        => Last(end.signals).sig = "SIGKILL"

(* C13: waitVMM(t), t >= 0, whose polls are never answered returns the    *)
(* timeout error when the elapsed time is at least t seconds and at most  *)
(* t seconds and one sleep of 10 ms.                                      *)
C13_TimeoutWithinOnePoll ==
    (wait.pc = "return" /\ wait.ret = "timeout")
        => /\ wait.elapsed >= wait.timeout * 1000
           /\ wait.elapsed <= wait.timeout * 1000 + waitVMMSleep

(* C20: when no addDevice call is in progress, the pending queue holds    *)
(* the entry of every call that returned success, and as many entries as  *)
(* there were such calls.                                                 *)
C20_NoLostAppend ==
    Inside = {}
        => /\ Len(pendingDevices) = DoneCount(Threads)
           /\ \A t \in Threads : \A i \in 1..Len(thr[t].done) :
                \E j \in 1..Len(pendingDevices) : pendingDevices[j] = thr[t].done[i]

(***************************************************************************)
(* Properties of the readiness after a failed start and of the PID that    *)
(* fcEnd signals.                                                          *)
(***************************************************************************)

(* The manager answered the poll of fcInit in the startSandbox in progress. *)
ManagerReachable == calls # <<>> /\ calls[1].op = "describeInstance" /\ calls[1].ok

(* The start action of the startSandbox in progress was accepted. *)
StartAccepted == StartAction # 0 /\ calls[StartAction].ok

(* C21: a startSandbox that fails after the manager became reachable      *)
(* returns with the readiness apiReady, or vmReady if the start action    *)
(* was accepted, fcEnd or not; the return and stopSandbox leave the       *)
(* readiness as it is, and until disconnect() or the next startSandbox    *)
(* changes it an addDevice queues nothing and hands a recognized          *)
(* descriptor to the Control Channel.                                     *)
C21_FailedStartKeepsReadiness ==
    [][/\ (StartReturned' /\ ret' = "err" /\ ManagerReachable')
            => state' = (IF StartAccepted' THEN vmReady ELSE apiReady)
       /\ (pc' = "return" \/ pc = "return") => state' = state
       /\ state' # state => (disconnect \/ fcInitWaitVMM \/ fcStartVM)
       /\ (devOp = NoDevOp /\ devOp'.op = "addDevice" /\ state # notReady)
            => /\ pendingDevices' = pendingDevices
               /\ Recognized(devOp'.arg) => devCalls' # <<>>]_vars

(* C21 witness: startSandbox failed, its cleanup killed the manager, and  *)
(* an addDevice that followed went to the Control Channel.                *)
C21_Witness ==
    /\ StartReturned
    /\ ret = "err"
    /\ cleanups >= 1
    /\ signals # <<>>
    /\ Last(signals) = Kill(info, "SIGKILL", TRUE)
    /\ state = apiReady
    /\ devOp.op = "addDevice"
    /\ devOp.st = apiReady
    /\ devCalls # <<>>

(* C22: fcEnd sends SIGTERM and SIGKILL only to the PID of a manager      *)
(* process that fcInit spawned or createSandbox loaded from the store,    *)
(* never to the PID 0 of an instance that has neither.                    *)
C22_NoSignalToPidZero ==
    \A k \in 1..Len(end.signals) :
        end.signals[k].sig \in {"SIGTERM", "SIGKILL"}
            => /\ end.signals[k].pid # 0
               /\ end.signals[k].pid = store
====
